---------------------------- MODULE Spec2Model ----------------------------
(***************************************************************************)
(* The contact-form pipeline of the portfolio site.                        *)
(*                                                                         *)
(*   server  backend/index.js (middleware order, global limiter, /health,  *)
(*           catch-all error responder) and routes/personalData.js         *)
(*           (endpoint limiter, validation rules, formatPhone, handler).   *)
(*   client  scripts.js, openContactForm.                                  *)
(*                                                                         *)
(* Text is a sequence of tokens: one-character strings, or a whole markup  *)
(* tag such as "<script>".  All requests come from one client address, so  *)
(* each limiter's store holds the single entry of that address.            *)
(***************************************************************************)
EXTENDS Integers, Sequences, FiniteSets, Bags, TLC

VARIABLES
    reqs,          \* server: bag of the requests being handled (req/res pairs)
    globalStore,   \* server: the global limiter's entry for the address
    contactStore,  \* server: the endpoint limiter's entry for the address
    phoneIn,       \* formatPhone: its argument
    phoneOut,      \* formatPhone: its result (<<>> before the call)
    contactSent,   \* client: sessionStorage holds the item "contactSent"
    popup,         \* client: the SweetAlert2 popup on screen
    inputs,        \* client: the values of the form's four input elements
    fetch,         \* client: the body of the POST in flight (<<>>: none)
    fetchResult,   \* client: how the last fetch of the open form settled
    orphans,       \* client: bodies of the POSTs in flight whose form is gone
    accepted,      \* client: POSTs of the session answered with success
    awaitGuard     \* client: the SweetAlert2 build keeps a dismissed popup's
                   \*         promise pending while preConfirm is awaited

vars == <<reqs, globalStore, contactStore, phoneIn, phoneOut,
          contactSent, popup, inputs, fetch, fetchResult,
          orphans, accepted, awaitGuard>>

serverVars == <<reqs, globalStore, contactStore>>
phoneVars == <<phoneIn, phoneOut>>
clientVars == <<contactSent, popup, inputs, fetch, fetchResult,
                orphans, accepted, awaitGuard>>

---------------------------------------------------------------------------
(* Bounds of the model *)

MaxInFlight == 2      \* requests handled at the same time
MaxOver == 1          \* requests still sent once a limiter's counter exceeds max
MaxPhoneLen == 11     \* longest phone text given to formatPhone
MaxOrphans == 1       \* forms dismissed while their POST is in flight
MaxAccepted == 2      \* accepted POSTs after which no further POST is issued

---------------------------------------------------------------------------
(* Text helpers *)

Digits == {"0", "1", "2", "3", "4", "5", "6", "7", "8", "9"}

Letters == {"a", "b", "A"}

Whitespace == {" "}

\* a request field that is absent from the body (JavaScript undefined)
Undefined == <<"undefined-value">>

\* express-validator's toString: an absent field is validated as ''
ToStr(v) == IF v = Undefined THEN <<>> ELSE v

RECURSIVE TrimLeft(_)
TrimLeft(s) ==
    IF s # <<>> /\ Head(s) \in Whitespace THEN TrimLeft(Tail(s)) ELSE s

RECURSIVE TrimRight(_)
TrimRight(s) ==
    IF s # <<>> /\ s[Len(s)] \in Whitespace
    THEN TrimRight(SubSeq(s, 1, Len(s) - 1))
    ELSE s

\* String.prototype.trim / the validator's trim() sanitizer
Trim(s) == TrimRight(TrimLeft(s))

\* s.split(c): the pieces of s between the occurrences of c
RECURSIVE Split(_, _)
Split(s, c) ==
    IF \A i \in 1..Len(s) : s[i] # c
    THEN <<s>>
    ELSE LET i == CHOOSE k \in 1..Len(s) :
                      s[k] = c /\ \A j \in 1..(k - 1) : s[j] # c
         IN  <<SubSeq(s, 1, i - 1)>> \o Split(SubSeq(s, i + 1, Len(s)), c)


---------------------------------------------------------------------------
(* routes/personalData.js: validation rules, sanitizer, formatPhone *)

NameMaxLen == 100
PhoneMaxLen == 30
MessageMaxLen == 5000
SubjectMaxLen == 200
PhoneDigits == 10

IsAlnum(c) == c \in Letters \/ c \in Digits

\* validator.js isFQDN (require_tld): dot-separated labels of letters, digits
\* and inner hyphens, the last one (the TLD) at least two letters
IsFQDN(d) ==
    LET parts == Split(d, ".")
        tld == parts[Len(parts)]
    IN  /\ Len(parts) >= 2
        /\ Len(tld) >= 2
        /\ \A i \in 1..Len(tld) : tld[i] \in Letters
        /\ \A k \in 1..Len(parts) :
              /\ parts[k] # <<>>
              /\ \A i \in 1..Len(parts[k]) :
                    IsAlnum(parts[k][i]) \/ parts[k][i] = "-"
              /\ parts[k][1] # "-"
              /\ parts[k][Len(parts[k])] # "-"

\* validator.js isEmail: the text after the last "@" is the domain, the text
\* before it the user part, whose dot-separated atoms are non-empty and free
\* of "@", blanks and dots
IsEmail(s) ==
    LET parts == Split(s, "@")
        domain == parts[Len(parts)]
        user == SubSeq(s, 1, Len(s) - Len(domain) - 1)
        atoms == Split(user, ".")
    IN  /\ Len(parts) >= 2
        /\ IsFQDN(domain)
        /\ \A k \in 1..Len(atoms) :
              /\ atoms[k] # <<>>
              /\ \A i \in 1..Len(atoms[k]) :
                    IsAlnum(atoms[k][i]) \/ atoms[k][i] = "-"

Lower(c) == IF c = "A" THEN "a" ELSE c

\* validator.js normalizeEmail: lower-cases the address
NormalizeEmail(s) == [i \in 1..Len(s) |-> Lower(s[i])]

FieldError(path, msg) == [path |-> path, msg |-> msg]

NameRule(body) ==
    LET v == Trim(ToStr(body.name))
    IN  (IF v = <<>> THEN <<FieldError("name", "Name is required.")>> ELSE <<>>)
        \o (IF Len(v) > NameMaxLen
            THEN <<FieldError("name", "Invalid value")>> ELSE <<>>)

EmailRule(body) ==
    LET v == Trim(ToStr(body.email))
    IN  IF IsEmail(v) THEN <<>>
        ELSE <<FieldError("email", "A valid email is required.")>>

PhoneRule(body) ==
    LET v == Trim(ToStr(body.phone))
    IN  IF Len(v) > PhoneMaxLen
        THEN <<FieldError("phone", "Invalid value")>> ELSE <<>>

MessageRule(body) ==
    LET v == Trim(ToStr(body.message))
    IN  (IF v = <<>> THEN <<FieldError("message", "Message is required.")>> ELSE <<>>)
        \o (IF Len(v) > MessageMaxLen
            THEN <<FieldError("message", "Invalid value")>> ELSE <<>>)

SubjectRule(body) ==
    LET v == Trim(ToStr(body.subject))
    IN  (IF v = <<>> THEN <<FieldError("subject", "Subject is required.")>> ELSE <<>>)
        \o (IF Len(v) > SubjectMaxLen
            THEN <<FieldError("subject", "Invalid value")>> ELSE <<>>)

validationRulesNoSubject(body) ==
    NameRule(body) \o EmailRule(body) \o PhoneRule(body) \o MessageRule(body)

\* validationResult(req).array() after validationRules ran, in rule order
validationRules(body) ==
    NameRule(body) \o EmailRule(body) \o PhoneRule(body)
        \o MessageRule(body) \o SubjectRule(body)

\* req.body once the rules' sanitizers (trim, normalizeEmail) have run
SanitizedBody(body) ==
    [name |-> Trim(ToStr(body.name)),
     email |-> NormalizeEmail(Trim(ToStr(body.email))),
     phone |-> Trim(ToStr(body.phone)),
     message |-> Trim(ToStr(body.message)),
     subject |-> Trim(ToStr(body.subject))]

\* the xss package on one token: other tags and stray angle brackets are
\* escaped, white-listed tags and text pass
XssToken(t) ==
    CASE t = "<script>" -> "&lt;script&gt;"
      [] t = "</script>" -> "&lt;/script&gt;"
      [] t = "<" -> "&lt;"
      [] t = ">" -> "&gt;"
      [] OTHER -> t

xssIdentity(s) == s

xss(s) == [i \in 1..Len(s) |-> XssToken(s[i])]

NoneProvided == <<"None Provided">>

IsDigit(c) == c \in Digits

formatPhoneAtLeast(phone) ==
    LET digits == SelectSeq(phone, IsDigit)
    IN  IF Len(digits) >= PhoneDigits
        THEN SubSeq(digits, 1, 3) \o <<"-">> \o SubSeq(digits, 4, 6)
                 \o <<"-">> \o SubSeq(digits, 7, Len(digits))
        ELSE NoneProvided

formatPhone(phone) ==
    LET digits == SelectSeq(phone, IsDigit)
    IN  IF Len(digits) = PhoneDigits
        THEN SubSeq(digits, 1, 3) \o <<"-">> \o SubSeq(digits, 4, 6)
                 \o <<"-">> \o SubSeq(digits, 7, Len(digits))
        ELSE NoneProvided

\* the argument of transporter.sendMail (the date line is left out)
BuildMail(body) ==
    LET b == SanitizedBody(body)
    IN  [subject |-> xss(b.subject),
         name |-> xss(b.name),
         email |-> xss(b.email),
         phone |-> formatPhone(xss(b.phone)),
         message |-> xss(b.message)]

---------------------------------------------------------------------------
(* Responses *)

Response(status, body) == [status |-> status, body |-> body]

NoResp == Response(0, [none |-> TRUE])

OkResp ==
    Response(200, [success |-> TRUE, message |-> "Message sent successfully."])

ValidationResp(errors) == Response(400, [success |-> FALSE, errors |-> errors])

FailureBodyEcho(err) == [success |-> FALSE, message |-> err]

FailureBody(err) == [success |-> FALSE, message |-> "Failed to send message."]

FailResp(err) == Response(500, FailureBody(err))

ContactLimitResp ==
    Response(429, [error |-> "Too many submissions. Please try again later."])

GlobalLimitResp ==
    Response(429, [error |-> "Too many requests. Please try again later."])

HealthResp == Response(200, [status |-> "ok"])

InternalErrorResp == Response(500, [error |-> "Internal server error."])

---------------------------------------------------------------------------
(* Request inputs *)

LongName == [i \in 1..(NameMaxLen + 1) |-> "a"]

LongPhone == [i \in 1..(PhoneMaxLen + 1) |-> "1"]

NameInputs ==
    {Undefined, <<>>, <<" ">>, <<"a">>, <<" ", "a", " ">>, LongName,
     <<"<script>", "a">>}

EmailInputs ==
    {Undefined, <<>>, <<" ">>,
     <<"a", "@", "b", ".", "a", "b">>,
     <<" ", "A", "@", "b", ".", "a", "b", " ">>,
     <<"a", "@", "b", ".", "a">>,
     <<"a", "@", "b">>,
     <<"a", "b", ".", "a", "b">>,
     <<"a", "@", "@", "b", ".", "a", "b">>,
     <<"a", " ", "b", "@", "b", ".", "a", "b">>,
     <<".", "a", "@", "b", ".", "a", "b">>,
     <<"a", ".", "b", "@", "a", "-", "b", ".", "a", "b">>,
     <<"a", "@", "-", "b", ".", "a", "b">>,
     <<"a", "@", "b", ".", "a", "b", ".">>,
     <<"a", "@", "b", ".", "a", "1">>,
     <<"@", "b", ".", "a", "b">>,
     <<"a", "@", "b", ".", ".", "a", "b">>}

PhoneInputs ==
    {Undefined, <<>>, <<"4", "0", "4", "5", "5", "5", "1", "2", "3", "4">>,
     <<"4", "0", "4", "-", "5", "5", "5", "-", "1", "2", "3", "4">>,
     <<"4", "0", "4", "5", "5", "5", "1", "2", "3">>,
     <<"4", "0", "4", "5", "5", "5", "1", "2", "3", "4", "5">>,
     <<"a">>, LongPhone}

SubjectInputs == {Undefined, <<>>, <<" ">>, <<"a">>, <<"a", "</script>", ">">>}

MessageInputs ==
    {Undefined, <<>>, <<" ">>, <<"a">>, <<"<script>", "a", "</script>">>,
     <<"<b>", "a", "</b>">>,
     <<"a", "<", "b">>}

Body(name, email, phone, subject, message) ==
    [name |-> name, email |-> email, phone |-> phone,
     subject |-> subject, message |-> message]

AllBodies ==
    {Body(n, e, p, s, m) : n \in NameInputs, e \in EmailInputs,
                           p \in PhoneInputs, s \in SubjectInputs,
                           m \in MessageInputs}

\* the end-to-end payload of the README, shortened
ValidBody ==
    Body(<<"a">>, <<"a", "@", "b", ".", "a", "b">>, <<"4", "0", "4", "5", "5", "5", "1", "2", "3", "4">>, <<"a">>, <<"a">>)

NoBody == Body(Undefined, Undefined, Undefined, Undefined, Undefined)

\* the bodies used where many requests are in play
FewBodies == {ValidBody, [ValidBody EXCEPT !.name = <<" ">>]}

TransportErrors == {"Invalid login", "Connection timeout"}

NoError == "none"

---------------------------------------------------------------------------
(* Rate limiters (express-rate-limit with its in-memory store): a fixed     *)
(* window per address, opened by the address's first counted request and    *)
(* closed windowMs later; every request that reaches the limiter is         *)
(* counted, and one whose count exceeds max is answered 429.  The clock is  *)
(* not modelled: a window's end is an event that may come at any time.      *)

ContactMax == 5
GlobalMax == 50

\* a store entry: the requests counted in the address's open window (no
\* window open: 0)
NoEntry == [totalHits |-> 0]

\* store.increment(key): the first request opens a window
Increment(entry) == [entry EXCEPT !.totalHits = @ + 1]

GlobalLimitedOffByOne(entry) == entry.totalHits >= GlobalMax

GlobalLimited(entry) == entry.totalHits > GlobalMax

ContactLimitedOffByOne(entry) == entry.totalHits >= ContactMax

ContactLimited(entry) == entry.totalHits > ContactMax

---------------------------------------------------------------------------
(* Server: backend/index.js and routes/personalData.js *)

Routes == {"POST /personaldata", "GET /health"}

\* a request being handled, with its response object
Request(route, parsed, body) ==
    [route |-> route, parsed |-> parsed, body |-> body, stage |-> "new",
     mail |-> <<>>, err |-> NoError, resp |-> NoResp]

Respond(r, resp) == [r EXCEPT !.stage = "done", !.resp = resp]

Handling == BagToSet(reqs)

Replace(r, r2) == reqs' = (reqs (-) SetToBag({r})) (+) SetToBag({r2})

\* the route a request is passed to once the global limiter let it through
RouteStage(route) == IF route = "POST /personaldata" THEN "endpoint" ELSE "health"

\* index.js 39-54: a request arrives; express.json parses its body; a body it
\* rejects goes straight to the error responder (80-83); any other request
\* is counted by the global limiter, which answers 429 or passes it on
GlobalGate(r) ==
    IF ~r.parsed
    THEN /\ reqs' = reqs (+) SetToBag({Respond(r, InternalErrorResp)})
         /\ UNCHANGED globalStore
    ELSE LET entry == Increment(globalStore)
         IN  /\ globalStore' = entry
             /\ reqs' = reqs (+) SetToBag({
                    IF GlobalLimited(entry)
                    THEN Respond(r, GlobalLimitResp)
                    ELSE [r EXCEPT !.stage = RouteStage(r.route)]})

Arrive(route, parsed, body) ==
    /\ BagCardinality(reqs) < MaxInFlight
    /\ globalStore.totalHits < GlobalMax + MaxOver
    /\ route = "POST /personaldata" => contactStore.totalHits < ContactMax + MaxOver
    /\ GlobalGate(Request(route, parsed, body))
    /\ UNCHANGED <<contactStore, phoneVars, clientVars>>

\* index.js 68-70
Health(r) ==
    /\ r.stage = "health"
    /\ Replace(r, Respond(r, HealthResp))
    /\ UNCHANGED <<globalStore, contactStore, phoneVars, clientVars>>

\* personalData.js 28-34, 78: the endpoint limiter
contactLimiter(r) ==
    /\ r.stage = "endpoint"
    /\ LET entry == Increment(contactStore)
       IN  /\ contactStore' = entry
           /\ Replace(r, IF ContactLimited(entry)
                         THEN Respond(r, ContactLimitResp)
                         ELSE [r EXCEPT !.stage = "validate"])
    /\ UNCHANGED <<globalStore, phoneVars, clientVars>>

\* personalData.js 78-106: validationRules, then the handler up to its await
HandlerResult(r) ==
    LET errors == validationRules(r.body)
    IN  IF errors # <<>>
        THEN Respond(r, ValidationResp(errors))
        ELSE [r EXCEPT !.stage = "sending", !.mail = <<BuildMail(r.body)>>]

Handler(r) ==
    /\ r.stage = "validate"
    /\ Replace(r, HandlerResult(r))
    /\ UNCHANGED <<globalStore, contactStore, phoneVars, clientVars>>

\* personalData.js 94-107: sendMail resolved
SendResolved(r) ==
    /\ r.stage = "sending"
    /\ Replace(r, Respond(r, OkResp))
    /\ UNCHANGED <<globalStore, contactStore, phoneVars, clientVars>>

SendRejectedRetry(r, err) ==
    /\ r.stage = "sending"
    /\ Replace(r, IF Len(r.mail) < 2
                  THEN [r EXCEPT !.mail = Append(@, BuildMail(r.body))]
                  ELSE Respond([r EXCEPT !.err = err], FailResp(err)))
    /\ UNCHANGED <<globalStore, contactStore, phoneVars, clientVars>>

\* personalData.js 108-111: sendMail rejected with err
SendRejected(r, err) ==
    /\ r.stage = "sending"
    /\ Replace(r, Respond([r EXCEPT !.err = err], FailResp(err)))
    /\ UNCHANGED <<globalStore, contactStore, phoneVars, clientVars>>

\* the response has been written and the request is forgotten
Close(r) ==
    /\ r.stage = "done"
    /\ reqs' = reqs (-) SetToBag({r})
    /\ UNCHANGED <<globalStore, contactStore, phoneVars, clientVars>>

\* index.js 47: windowMs after it opened, the global limiter's window closes
GlobalWindowEnds ==
    /\ globalStore # NoEntry
    /\ globalStore' = NoEntry
    /\ UNCHANGED <<reqs, contactStore, phoneVars, clientVars>>

\* personalData.js 29: windowMs after it opened, the endpoint limiter's
\* window closes
ContactWindowEnds ==
    /\ contactStore # NoEntry
    /\ contactStore' = NoEntry
    /\ UNCHANGED <<reqs, globalStore, phoneVars, clientVars>>

---------------------------------------------------------------------------
(* formatPhone on its own: personalData.js 42-48 *)

PhoneChars == {"1", "2", "-"}

PhoneTexts == UNION {[1..n -> PhoneChars] : n \in 0..MaxPhoneLen}

FormatPhoneCall ==
    /\ phoneOut = <<>>
    /\ phoneOut' = formatPhone(phoneIn)
    /\ UNCHANGED <<phoneIn, serverVars, clientVars>>

---------------------------------------------------------------------------
(* Client: scripts.js 204-280, openContactForm *)

NoMsg == ""

RequiredMsg == "All fields are required."

InvalidEmailMsg == "Please enter a valid email address."

NetworkMsg == "Network error. Please check your connection."

GenericMsg == "Failed to send message."

Popup(kind, msg) == [kind |-> kind, validationMessage |-> msg]

NoPopup == Popup("none", NoMsg)

EmptyInputs == [name |-> <<>>, email |-> <<>>, subject |-> <<>>, message |-> <<>>]

\* the texts typed into each input element
FormTexts ==
    [name |-> {<<>>, <<" ">>, <<"a">>, <<" ", "a", " ">>},
     email |-> EmailInputs \ {Undefined},
     subject |-> {<<>>, <<" ">>, <<"a">>},
     message |-> {<<>>, <<" ">>, <<"a">>}]

\* the texts typed where several POSTs of the session are in play: a blank
\* name, and emails that fail local validation, pass it but fail the
\* server's, and pass both
SessionTexts ==
    [name |-> {<<>>, <<"a">>},
     email |-> {<<"a", "@", "b">>, <<"a", "@", "b", ".", "a">>,
                <<"a", "@", "b", ".", "a", "b">>},
     subject |-> {<<"a">>},
     message |-> {<<"a">>}]

FormInputs ==
    [name : FormTexts.name, email : FormTexts.email,
     subject : FormTexts.subject, message : FormTexts.message]

NoFetch == <<>>

NoResult == [kind |-> "none"]

\* the message of the TypeError a failed fetch rejects with: Chromium,
\* Firefox and WebKit each word it differently
FetchFailureMessages ==
    {"Failed to fetch", "NetworkError when attempting to fetch resource.",
     "Load failed"}

NeverSent == FALSE

\* scripts.js 205: sessionStorage.getItem("contactSent")
AlreadySent == contactSent

\* the variables the session keeps beside the popup on screen
sessionVars == <<orphans, accepted, awaitGuard>>

\* scripts.js 204-228: the call either shows the notice and returns, or
\* opens the form; the link is reachable only while no popup covers the page
openContactForm ==
    /\ popup.kind = "none"
    /\ popup' = IF AlreadySent THEN Popup("already", NoMsg) ELSE Popup("form", NoMsg)
    /\ inputs' = EmptyInputs
    /\ UNCHANGED <<contactSent, fetch, fetchResult, sessionVars, serverVars, phoneVars>>

\* the user types into one input element of the form
EditForm(f, text) ==
    /\ popup.kind = "form"
    /\ inputs[f] # text
    /\ inputs' = [inputs EXCEPT ![f] = text]
    /\ UNCHANGED <<contactSent, popup, fetch, fetchResult, sessionVars,
                   serverVars, phoneVars>>

emailRegexTestNoDot(email) ==
    LET parts == Split(email, "@")
    IN  /\ Len(parts) = 2
        /\ \A i \in 1..Len(email) : email[i] \notin Whitespace
        /\ parts[1] # <<>>
        /\ parts[2] # <<>>

\* scripts.js 240-241: /^[^\s@]+@[^\s@]+\.[^\s@]+$/.test(email)
emailRegexTest(email) ==
    LET parts == Split(email, "@")
    IN  /\ Len(parts) = 2
        /\ \A i \in 1..Len(email) : email[i] \notin Whitespace
        /\ parts[1] # <<>>
        /\ \E j \in 2..(Len(parts[2]) - 1) : parts[2][j] = "."

\* scripts.js 230-244: the message local validation shows, NoMsg if it passes
LocalValidation(v) ==
    IF \/ Trim(v.name) = <<>> \/ Trim(v.email) = <<>>
       \/ Trim(v.subject) = <<>> \/ Trim(v.message) = <<>>
    THEN RequiredMsg
    ELSE IF ~emailRegexTest(Trim(v.email)) THEN InvalidEmailMsg ELSE NoMsg

\* scripts.js 250: the JSON body, which carries no phone
FetchBody(v) ==
    Body(Trim(v.name), Trim(v.email), Undefined, Trim(v.subject), Trim(v.message))

\* scripts.js 229-251: Submit is clicked and preConfirm runs up to its fetch
Confirm ==
    /\ popup.kind = "form"
    /\ accepted < MaxAccepted
    /\ LET msg == LocalValidation(inputs)
       IN  IF msg # NoMsg
           THEN /\ popup' = Popup("form", msg)
                /\ fetch' = fetch
           ELSE /\ popup' = Popup("loading", NoMsg)
                /\ fetch' = <<FetchBody(inputs)>>
    /\ fetchResult' = NoResult
    /\ UNCHANGED <<contactSent, inputs, sessionVars, serverVars, phoneVars>>

\* Cancel, Escape or a click outside while the form is not loading; the
\* promise resolves dismissed and openContactForm returns (271)
Dismiss ==
    /\ popup.kind = "form"
    /\ popup' = NoPopup
    /\ inputs' = EmptyInputs
    /\ fetchResult' = NoResult
    /\ UNCHANGED <<contactSent, fetch, sessionVars, serverVars, phoneVars>>

\* scripts.js 215-228: the options leave allowEscapeKey at its default, so
\* Escape closes the form while preConfirm awaits its fetch; the POST stays
\* in flight and preConfirm goes on running without its form
DismissLoading ==
    /\ popup.kind = "loading"
    /\ fetch # NoFetch
    /\ BagCardinality(orphans) < MaxOrphans
    /\ popup' = NoPopup
    /\ inputs' = EmptyInputs
    /\ fetch' = NoFetch
    /\ fetchResult' = NoResult
    /\ orphans' = orphans (+) SetToBag({fetch[1]})
    /\ UNCHANGED <<contactSent, accepted, awaitGuard, serverVars, phoneVars>>

\* the notice popups are closed with their button
CloseNotice ==
    /\ popup.kind \in {"already", "success"}
    /\ popup' = NoPopup
    /\ UNCHANGED <<contactSent, inputs, fetch, fetchResult, sessionVars,
                   serverVars, phoneVars>>

\* what the server may answer to a well-formed POST with this body
PossibleResponses(body) ==
    {GlobalLimitResp, ContactLimitResp}
        \cup (IF validationRules(body) # <<>>
              THEN {ValidationResp(validationRules(body))}
              ELSE {OkResp} \cup {FailResp(e) : e \in TransportErrors})

\* response.ok
ResponseOk(resp) == resp.status \in 200..299

\* data.success, absent counting as false
DataSuccess(data) == "success" \in DOMAIN data /\ data.success

ThrowsNever(resp) == FALSE

\* scripts.js 255: the response makes preConfirm throw
Throws(resp) == ~ResponseOk(resp) \/ ~DataSuccess(resp.body)

\* data.message || "Failed to send message."
ThrownMessage(data) ==
    IF "message" \in DOMAIN data /\ data.message # NoMsg
    THEN data.message ELSE GenericMsg

\* scripts.js 260-265: the text handed to showValidationMessage
CatchMessage(errorMessage) ==
    IF errorMessage = "Failed to fetch"
    THEN NetworkMsg
    ELSE IF errorMessage # NoMsg THEN errorMessage ELSE GenericMsg

\* scripts.js 260-267: preConfirm's catch block
Caught(errorMessage) ==
    /\ popup' = Popup("form", CatchMessage(errorMessage))
    /\ UNCHANGED <<contactSent, inputs>>

\* personalData.js 107 seen from the session: 1 for the response that
\* reports the email as sent, 0 for any other
Accepted(resp) == IF resp = OkResp THEN 1 ELSE 0

\* scripts.js 259, 269: preConfirm returned data; SweetAlert2 resolves the
\* promise confirmed unless a validation message is showing, in which case it
\* only ends the loading state
Resolves == popup.validationMessage = NoMsg

\* scripts.js 271-279: result.isConfirmed
IsConfirmed ==
    /\ contactSent' = TRUE
    /\ popup' = Popup("success", NoMsg)
    /\ inputs' = EmptyInputs

\* scripts.js 247, 260: the fetch rejects
FetchFailed(errorMessage) ==
    /\ popup.kind = "loading"
    /\ fetch # NoFetch
    /\ fetch' = NoFetch
    /\ fetchResult' = [kind |-> "network", message |-> errorMessage]
    /\ Caught(errorMessage)
    /\ UNCHANGED <<sessionVars, serverVars, phoneVars>>

\* scripts.js 253-259, 271-279: a response arrives
FetchResponded(resp) ==
    /\ popup.kind = "loading"
    /\ fetch # NoFetch
    /\ fetch' = NoFetch
    /\ fetchResult' = [kind |-> "response", resp |-> resp]
    /\ accepted' = accepted + Accepted(resp)
    /\ IF Throws(resp)
       THEN Caught(ThrownMessage(resp.body))
       ELSE IF Resolves
            THEN IsConfirmed
            ELSE /\ popup' = Popup("form", popup.validationMessage)
                 /\ UNCHANGED <<contactSent, inputs>>
    /\ UNCHANGED <<orphans, awaitGuard, serverVars, phoneVars>>

\* scripts.js 261: Swal.showValidationMessage acts on the popup on screen,
\* whichever call opened it
ShowOnCurrent(msg) ==
    popup' = IF popup.kind = "none" THEN popup
             ELSE [popup EXCEPT !.validationMessage = msg]

\* scripts.js 247, 260-267: the fetch of a dismissed form rejects
OrphanFailed(body, errorMessage) ==
    /\ body \in BagToSet(orphans)
    /\ orphans' = orphans (-) SetToBag({body})
    /\ ShowOnCurrent(CatchMessage(errorMessage))
    /\ UNCHANGED <<contactSent, inputs, fetch, fetchResult, accepted,
                   awaitGuard, serverVars, phoneVars>>

\* scripts.js 253-279: a response to the POST of a dismissed form arrives.
\* A build with the guard kept that form's promise pending and resolves it
\* confirmed now, and the success notice (273) replaces whatever popup is on
\* screen; a build without it resolved the promise dismissed at the Escape
OrphanResponded(body, resp) ==
    /\ body \in BagToSet(orphans)
    /\ accepted' = accepted + Accepted(resp)
    /\ IF Throws(resp)
       THEN /\ ShowOnCurrent(ThrownMessage(resp.body))
            /\ orphans' = orphans (-) SetToBag({body})
            /\ UNCHANGED <<contactSent, inputs, fetch, fetchResult>>
       ELSE IF awaitGuard /\ Resolves
            THEN /\ IsConfirmed
                 /\ orphans' = (orphans (-) SetToBag({body}))
                                   (+) SetToBag({fetch[i] : i \in 1..Len(fetch)})
                 /\ fetch' = NoFetch
                 /\ fetchResult' = NoResult
            ELSE /\ orphans' = orphans (-) SetToBag({body})
                 /\ UNCHANGED <<contactSent, popup, inputs, fetch, fetchResult>>
    /\ UNCHANGED <<awaitGuard, serverVars, phoneVars>>

\* a fresh browser session
SessionInit ==
    /\ contactSent = FALSE
    /\ popup = NoPopup
    /\ inputs = EmptyInputs
    /\ fetch = NoFetch
    /\ fetchResult = NoResult
    /\ orphans = EmptyBag
    /\ accepted = 0

\* the session where only the server or formatPhone is looked at
ClientInit ==
    /\ SessionInit
    /\ awaitGuard = TRUE

ServerInit ==
    /\ reqs = EmptyBag
    /\ globalStore = NoEntry
    /\ contactStore = NoEntry

PhoneIdle ==
    /\ phoneIn = <<>>
    /\ phoneOut = <<>>

\* the session in a browser that loaded either kind of SweetAlert2 build
BrowserInit ==
    /\ ServerInit
    /\ PhoneIdle
    /\ SessionInit
    /\ awaitGuard \in BOOLEAN

Init == ServerInit /\ PhoneIdle /\ ClientInit

Next ==
    \/ \E body \in FewBodies : Arrive("POST /personaldata", TRUE, body)
    \/ Arrive("GET /health", TRUE, NoBody)
    \/ \E route \in Routes : Arrive(route, FALSE, NoBody)
    \/ \E r \in Handling : Health(r)
    \/ \E r \in Handling : contactLimiter(r)
    \/ \E r \in Handling : Handler(r)
    \/ \E r \in Handling : SendResolved(r)
    \/ \E r \in Handling, err \in TransportErrors : SendRejected(r, err)
    \/ \E r \in Handling : Close(r)
    \/ GlobalWindowEnds
    \/ ContactWindowEnds

Spec == Init /\ [][Next]_vars

\* one POST /personaldata request from arrival to response, any body
HandlerNext ==
    \/ /\ reqs = EmptyBag
       /\ globalStore = NoEntry
       /\ \E body \in AllBodies : Arrive("POST /personaldata", TRUE, body)
    \/ \E r \in Handling : contactLimiter(r)
    \/ \E r \in Handling : Handler(r)
    \/ \E r \in Handling : SendResolved(r)
    \/ \E r \in Handling, err \in TransportErrors : SendRejected(r, err)
    \/ \E r \in Handling : Close(r)

HandlerSpec == Init /\ [][HandlerNext]_vars

\* personalData.js 94: the promise of sendMail settles, either way
Settles ==
    \E r \in Handling :
        SendResolved(r) \/ \E err \in TransportErrors : SendRejected(r, err)

\* the POST /personaldata requests of one address, one after the other, with
\* bodies the parser accepts or rejects
SerialNext ==
    \/ /\ reqs = EmptyBag
       /\ \E body \in FewBodies : Arrive("POST /personaldata", TRUE, body)
    \/ /\ reqs = EmptyBag
       /\ Arrive("POST /personaldata", FALSE, NoBody)
    \/ \E r \in Handling : contactLimiter(r)
    \/ \E r \in Handling : Handler(r)
    \/ \E r \in Handling : SendResolved(r)
    \/ \E r \in Handling, err \in TransportErrors : SendRejected(r, err)
    \/ \E r \in Handling : Close(r)
    \/ GlobalWindowEnds
    \/ ContactWindowEnds

\* every sendMail attempt settles: the handler's continuation runs as soon
\* as the promise does
SerialSpec == Init /\ [][SerialNext]_vars /\ WF_vars(Settles)

PhoneInit ==
    /\ ServerInit
    /\ ClientInit
    /\ phoneIn \in PhoneTexts
    /\ phoneOut = <<>>

PhoneSpec == PhoneInit /\ [][FormatPhoneCall]_vars

ClientNext ==
    \/ openContactForm
    \/ \E f \in DOMAIN FormTexts : \E text \in FormTexts[f] : EditForm(f, text)
    \/ Confirm
    \/ Dismiss
    \/ CloseNotice
    \/ \E m \in FetchFailureMessages : FetchFailed(m)
    \/ /\ fetch # NoFetch
       /\ \E resp \in PossibleResponses(fetch[1]) : FetchResponded(resp)

ClientSpec == Init /\ [][ClientNext]_vars

\* the session with forms dismissed while their POST is in flight, in a
\* browser that loaded either kind of SweetAlert2 build
SessionNext ==
    \/ openContactForm
    \/ \E f \in DOMAIN SessionTexts : \E text \in SessionTexts[f] : EditForm(f, text)
    \/ Confirm
    \/ Dismiss
    \/ DismissLoading
    \/ CloseNotice
    \/ \E m \in FetchFailureMessages : FetchFailed(m)
    \/ /\ fetch # NoFetch
       /\ \E resp \in PossibleResponses(fetch[1]) : FetchResponded(resp)
    \/ \E body \in BagToSet(orphans), m \in FetchFailureMessages :
          OrphanFailed(body, m)
    \/ \E body \in BagToSet(orphans) :
          \E resp \in PossibleResponses(body) : OrphanResponded(body, resp)

SessionSpec == BrowserInit /\ [][SessionNext]_vars

---------------------------------------------------------------------------
(* Claims *)

\* a request joins the ones being handled
Arrives(r2) == reqs' = reqs (+) SetToBag({r2})

\* request r takes a step and becomes r2
Steps(r, r2) == r2 # r /\ Replace(r, r2)

Handling2 == BagToSet(reqs')

\* the text s has the form local@domain.tld: one "@", no blank, something
\* before the "@", and after it a "." with something on either side
MatchesLocalAtDomainTld(s) ==
    \E i \in 2..Len(s) :
        /\ s[i] = "@"
        /\ \A k \in 1..Len(s) : k # i => s[k] \notin {"@", " "}
        /\ \E j \in (i + 2)..(Len(s) - 1) : s[j] = "."

\* C1 as stated, for requests whose body the parser accepts: a POST
\* /personaldata request arriving while the endpoint limiter's open window
\* (at most 15 minutes old) already holds 5 or more requests of the address
\* is answered, if at all, with the endpoint limiter's 429 body
C1_Original ==
    [][\A r2 \in Handling2 :
          (/\ Arrives(r2)
           /\ r2.route = "POST /personaldata"
           /\ r2.parsed
           /\ contactStore.totalHits >= ContactMax
           /\ r2.stage = "done")
          => r2.resp = ContactLimitResp]_vars

\* C1 amended: a POST /personaldata request that reaches the endpoint limiter
\* is answered 429 with the fixed body and causes no email exactly when the
\* limiter's open window already holds 5 or more requests of the address;
\* otherwise it passes the gate, and with a valid payload reaches dispatch
C1_EndpointGate ==
    [][\A r \in Handling : \A r2 \in Handling2 :
          Steps(r, r2) =>
            /\ r.stage = "endpoint" =>
                 IF contactStore.totalHits >= ContactMax
                 THEN /\ r2.stage = "done"
                      /\ r2.resp = ContactLimitResp
                      /\ r2.mail = <<>>
                 ELSE r2.stage = "validate"
            /\ (r.stage = "validate" /\ r.body = ValidBody) =>
                 (r2.stage = "sending" /\ Len(r2.mail) = 1)
            /\ r.stage = "done" => FALSE]_vars

\* C1 witness: the sixth request of a window has been rejected by the endpoint
\* limiter although its payload is valid
C1_Witness ==
    \E r \in Handling :
        /\ r.resp = ContactLimitResp
        /\ r.body = ValidBody
        /\ contactStore.totalHits = ContactMax + 1

Required == {"name", "subject", "message"}

\* the fields of a body that C2 calls offending
Offending(body) ==
    {f \in Required : Trim(ToStr(body[f])) = <<>>}
        \cup (IF MatchesLocalAtDomainTld(Trim(ToStr(body.email)))
              THEN {} ELSE {"email"})

PastGates(r) ==
    /\ r.route = "POST /personaldata"
    /\ r.parsed
    /\ r.stage \in {"sending", "done"}
    /\ r.resp \notin {GlobalLimitResp, ContactLimitResp}

\* C2: a POST /personaldata request that passed both gates and has a
\* required field missing or blank, or an email that is missing or not of
\* the form local@domain.tld, is answered 400 {success:false, errors} with an
\* error entry for each offending field, and sendMail is never called for it
C2_Validation ==
    \A r \in Handling :
        (PastGates(r) /\ Offending(r.body) # {}) =>
            /\ r.stage = "done"
            /\ r.mail = <<>>
            /\ r.resp.status = 400
            /\ DOMAIN r.resp.body = {"success", "errors"}
            /\ r.resp.body.success = FALSE
            /\ \A f \in Offending(r.body) :
                  \E i \in 1..Len(r.resp.body.errors) :
                      r.resp.body.errors[i].path = f

\* C2 witness: a request with a blank subject and a malformed email has been
\* answered
C2_Witness ==
    \E r \in Handling :
        /\ PastGates(r)
        /\ r.stage = "done"
        /\ Offending(r.body) = {"subject", "email"}

\* C3: a request that passed validation is answered 200 {success:true,
\* message:"Message sent successfully."} when sendMail resolved and 500
\* {success:false, message:"Failed to send message."} when it threw, the
\* same body whatever the error
C3_DispatchOutcome ==
    \A r \in Handling :
        (r.stage = "done" /\ r.mail # <<>>) =>
            IF r.err = NoError
            THEN r.resp = Response(200, [success |-> TRUE,
                                         message |-> "Message sent successfully."])
            ELSE r.resp = Response(500, [success |-> FALSE,
                                         message |-> "Failed to send message."])

\* C3 witness: sendMail threw and the request has been answered
C3_Witness ==
    \E r \in Handling :
        r.stage = "done" /\ r.mail # <<>> /\ r.err = "Invalid login"

RECURSIVE DigitsOf(_)
DigitsOf(s) ==
    IF s = <<>> THEN <<>>
    ELSE (IF Head(s) \in Digits THEN <<Head(s)>> ELSE <<>>) \o DigitsOf(Tail(s))

\* C5: formatPhone gives the digits of its argument as DDD-DDD-DDDD when
\* there are exactly 10 of them, and "None Provided" for any other argument
C5_FormatPhone ==
    phoneOut # <<>> =>
        LET d == DigitsOf(phoneIn)
        IN  IF Len(d) = 10
            THEN phoneOut = <<d[1], d[2], d[3], "-", d[4], d[5], d[6], "-",
                              d[7], d[8], d[9], d[10]>>
            ELSE phoneOut = <<"None Provided">>

\* C5 witness: a text of 10 digits and a separator has been formatted
C5_Witness ==
    /\ Len(phoneIn) = 11
    /\ Len(DigitsOf(phoneIn)) = 10
    /\ Len(phoneOut) = 12

\* the four documented response shapes of POST /personaldata
DocumentedShape(resp) ==
    \/ resp.status = 200 /\ DOMAIN resp.body = {"success", "message"}
                         /\ resp.body.success = TRUE
    \/ resp.status = 400 /\ DOMAIN resp.body = {"success", "errors"}
                         /\ resp.body.success = FALSE
    \/ resp.status = 429 /\ DOMAIN resp.body = {"error"}
    \/ resp.status = 500 /\ DOMAIN resp.body = {"success", "message"}
                         /\ resp.body.success = FALSE

\* C7: every response to a POST /personaldata request has one of the four
\* documented shapes; a 500 carries success:false and a generic message
C7_DocumentedShapes ==
    \A r \in Handling :
        (r.route = "POST /personaldata" /\ r.stage = "done")
            => DocumentedShape(r.resp)

\* C8 as stated, for requests whose body the parser accepts: the arrival of
\* a GET /health request leaves both limiters' counters unchanged and the
\* request is answered, if at all, with 200 {status:"ok"}
C8_Original ==
    [][\A r2 \in Handling2 :
          (Arrives(r2) /\ r2.route = "GET /health" /\ r2.parsed) =>
              /\ globalStore' = globalStore
              /\ contactStore' = contactStore
              /\ r2.stage = "done" => r2.resp = HealthResp]_vars

\* C8 amended: a GET /health request is counted by the global limiter and by
\* nothing else; it is answered 500 when the parser rejects its body, 429
\* with the global message when the open window already holds 50 requests,
\* and 200 {status:"ok"} otherwise; the handler itself changes no counter
C8_Health ==
    [][/\ \A r2 \in Handling2 :
             (Arrives(r2) /\ r2.route = "GET /health") =>
                 /\ contactStore' = contactStore
                 /\ IF ~r2.parsed
                    THEN r2.resp = InternalErrorResp /\ globalStore' = globalStore
                    ELSE /\ globalStore'.totalHits = globalStore.totalHits + 1
                         /\ IF globalStore.totalHits >= GlobalMax
                            THEN r2.stage = "done" /\ r2.resp = GlobalLimitResp
                            ELSE r2.stage # "done"
       /\ \A r \in Handling : \A r2 \in Handling2 :
             (Steps(r, r2) /\ r.route = "GET /health" /\ r.stage # "done") =>
                 /\ r2.stage = "done"
                 /\ r2.resp = Response(200, [status |-> "ok"])
                 /\ globalStore' = globalStore
                 /\ contactStore' = contactStore]_vars

\* C8 witness: one health check has been answered 200 and another 429 while
\* the endpoint limiter has counted requests
C8_Witness ==
    /\ \E r \in Handling : r.route = "GET /health" /\ r.resp = HealthResp
    /\ \E r \in Handling : r.route = "GET /health" /\ r.resp = GlobalLimitResp
    /\ contactStore.totalHits > 0

\* C10: every arriving request, whatever its route and body, is counted by
\* the global limiter, and one that finds 50 requests counted in the open
\* window is answered 429 with the global message without touching the
\* endpoint limiter
C10_GlobalGate ==
    [][\A r2 \in Handling2 :
          Arrives(r2) =>
              /\ globalStore'.totalHits = globalStore.totalHits + 1
              /\ contactStore' = contactStore
              /\ globalStore.totalHits >= GlobalMax =>
                    (/\ r2.stage = "done"
                     /\ r2.resp = GlobalLimitResp
                     /\ r2.resp # ContactLimitResp)]_vars

\* C4 (a step that opens a popup and settles no POST is a call of
\* openContactForm): a call that starts while contactSent is set shows
\* the "Already Sent" notice, opens no form and issues no request, and
\* nothing is sent while that notice is shown
C4_AlreadySent ==
    [][/\ (/\ popup.kind = "none" /\ popup'.kind # "none"
           /\ orphans' = orphans /\ contactSent) =>
             (popup'.kind = "already" /\ fetch' = NoFetch)
       /\ popup.kind = "already" => (fetch' = NoFetch /\ popup'.kind # "form")]_vars

\* C4 witness: the notice is on screen after a submission succeeded
C4_Witness ==
    /\ contactSent
    /\ popup.kind = "already"

\* the form values that C9 calls invalid
LocallyInvalid(v) ==
    \/ \E f \in {"name", "email", "subject", "message"} : Trim(v[f]) = <<>>
    \/ ~MatchesLocalAtDomainTld(Trim(v.email))

\* C9 (a step from the form that keeps a popup, the typed values and the
\* POSTs of dismissed forms is a click on Submit): when Submit is confirmed
\* with a field blank or an email not of the
\* form local@domain.tld, a validation message is shown, the form stays open,
\* no POST is issued and contactSent stays unset; a POST is issued only
\* for values that are all non-blank with a matching email
C9_LocalValidation ==
    [][/\ (/\ popup.kind = "form" /\ popup'.kind # "none"
           /\ inputs' = inputs /\ orphans' = orphans) =>
             IF LocallyInvalid(inputs)
             THEN /\ popup'.kind = "form"
                  /\ popup'.validationMessage \in {RequiredMsg, InvalidEmailMsg}
                  /\ fetch' = NoFetch
                  /\ ~contactSent'
             ELSE /\ popup'.kind = "loading"
                  /\ fetch' # NoFetch
       /\ (fetch = NoFetch /\ fetch' # NoFetch) => ~LocallyInvalid(inputs)]_vars

\* C9 witness: the form shows the email message for an address without a dot
C9_Witness ==
    /\ popup = Popup("form", InvalidEmailMsg)
    /\ Trim(inputs.email) = <<"a", "@", "b">>
    /\ fetch = NoFetch

\* C6: the network message is shown exactly when the fetch did not complete;
\* a failure the server reported shows the server's message when there is
\* one and the generic message otherwise
C6_Classification ==
    /\ fetchResult.kind = "network" => popup.validationMessage = NetworkMsg
    /\ (fetchResult.kind = "response" /\ popup.kind = "form") =>
          /\ popup.validationMessage # NetworkMsg
          /\ popup.validationMessage =
                IF "message" \in DOMAIN fetchResult.resp.body
                THEN fetchResult.resp.body.message
                ELSE GenericMsg
    /\ popup.validationMessage = NetworkMsg => fetchResult.kind = "network"

\* C11: a POST of the session that has been answered with success has set
\* contactSent, and no second POST of the session is accepted, whether or
\* not forms were dismissed or replaced while their POST was in flight
C11_OnceAccepted ==
    /\ accepted >= 1 => contactSent
    /\ accepted <= 1

\* C13: contactSent is set only when a POST of the session has been answered
\* 200 with success:true, and only in the step in which such a response
\* arrives; a step in which none arrives (a local validation failure, a
\* failure the server reported, a network failure, a cancelled or dismissed
\* dialog) leaves it as it was, a settled POST that did not set it leaves
\* the form open, and contactSent is never cleared
C13_OnlyOnSuccess ==
    /\ [](contactSent => accepted >= 1)
    /\ [][/\ contactSent => contactSent'
          /\ accepted' = accepted => contactSent' = contactSent
          /\ (~contactSent /\ contactSent') => accepted' = accepted + 1
          /\ (/\ popup.kind = "loading" /\ fetch' = NoFetch
              /\ orphans' = orphans /\ ~contactSent') =>
                popup'.kind = "form"]_vars

\* C13 witness: the response to the POST of a form dismissed while loading
\* has set contactSent while a second form was open
C13_Witness ==
    /\ contactSent
    /\ accepted = 1
    /\ popup.kind = "success"
    /\ fetchResult = NoResult
    /\ orphans # EmptyBag

\* a request that passed both rate-limit gates and validation
PassesAll(r) ==
    /\ r.parsed
    /\ r.resp \notin {GlobalLimitResp, ContactLimitResp}
    /\ validationRules(r.body) = <<>>

\* C12: a POST /personaldata request causes at most one sendMail attempt,
\* exactly one once it has passed both gates and validation and none when it
\* was answered without passing them; no step repeats an attempt; the
\* request gets no response while the attempt is pending and one response
\* when it settles, after which nothing more happens to it; and a request
\* whose attempt is pending is eventually answered
C12_SinglePass ==
    /\ [](\A r \in Handling :
             /\ Len(r.mail) <= 1
             /\ r.stage \in {"endpoint", "validate"} =>
                   (r.mail = <<>> /\ r.resp = NoResp)
             /\ r.stage = "sending" => (Len(r.mail) = 1 /\ r.resp = NoResp)
             /\ r.stage = "done" =>
                   /\ r.resp # NoResp
                   /\ Len(r.mail) = IF PassesAll(r) THEN 1 ELSE 0)
    /\ [][\A r \in Handling : \A r2 \in Handling2 :
             Steps(r, r2) =>
                /\ r.stage # "done"
                /\ r.mail # <<>> => (r2.mail = r.mail /\ r2.stage = "done")
                /\ (r2.resp # NoResp /\ r2.mail # <<>>) => r.stage = "sending"]_vars
    /\ (\E r \in Handling : r.stage = "sending")
          ~> (\E r \in Handling : r.stage = "done" /\ Len(r.mail) = 1)

\* C12 witness: the one attempt of a request was rejected and the request
\* has been answered
C12_Witness ==
    \E r \in Handling :
        /\ r.stage = "done"
        /\ Len(r.mail) = 1
        /\ r.err = "Connection timeout"
        /\ r.resp.status = 500

\* the tokens of a request value that would be markup in the HTML of the
\* email: script tags and stray angle brackets
Unsafe == {"<script>", "</script>", "<", ">"}

\* the text out is the text in with every unsafe token replaced by a token
\* that is not markup, and every other token kept
Neutralised(in, out) ==
    /\ Len(out) = Len(in)
    /\ \A i \in 1..Len(in) :
          IF in[i] \in Unsafe THEN out[i] \notin Unsafe ELSE out[i] = in[i]

\* C14: in the argument of every sendMail call, name, email, message and
\* subject are the validated request values with their script tags and
\* angle brackets neutralised, the phone line is what formatPhone makes of
\* the phone value, and no field holds a script tag
C14_Sanitized ==
    \A r \in Handling :
        r.mail # <<>> =>
            LET m == r.mail[1]
                v(f) == Trim(ToStr(r.body[f]))
            IN  /\ Neutralised(v("name"), m.name)
                /\ Neutralised(v("message"), m.message)
                /\ Neutralised(v("subject"), m.subject)
                /\ Neutralised([i \in 1..Len(v("email")) |->
                                   IF v("email")[i] = "A" THEN "a"
                                   ELSE v("email")[i]], m.email)
                /\ \/ m.phone = <<"None Provided">>
                   \/ Len(m.phone) = 12 /\ DigitsOf(m.phone) = DigitsOf(v("phone"))
                /\ \A f \in DOMAIN m : \A i \in 1..Len(m[f]) : m[f][i] \notin Unsafe

\* C14 witness: a request whose name, subject and message carry script tags
\* has had its email sent
C14_Witness ==
    \E r \in Handling :
        /\ r.resp = OkResp
        /\ r.body.name = <<"<script>", "a">>
        /\ r.body.subject = <<"a", "</script>", ">">>
        /\ r.body.message = <<"<script>", "a", "</script>">>
        /\ r.mail[1].message = <<"&lt;script&gt;", "a", "&lt;/script&gt;">>

==========================================================================
